---- MODULE Spec2Model ----
(***************************************************************************)
(* Seam carving (userbot/scaleutils/seam_carver.py): resize_image and the  *)
(* functions it calls, as a state machine over one call of resize_image.   *)
(*                                                                         *)
(* An image is a numpy array: a record [shape, px] where shape is the      *)
(* tuple <<height, width, channels>> and px the rows, each row a sequence  *)
(* of pixels, each pixel a sequence of uint8 channel values.  Column and   *)
(* seam indices are 0-based as in the source; TLA+ sequences are 1-based,  *)
(* so px[r + 1][c + 1] is img[r][c].                                       *)
(***************************************************************************)
EXTENDS Integers, Sequences, FiniteSets, TLC

VARIABLES heap,            \* buffer id -> array: the live numpy buffers
          full_img,        \* the caller's reference (resize_image's argument)
          cropped_pixels,  \* resize_image's second argument
          img,             \* resize_image's local img: a buffer id, None before line 154
          it,              \* iterations of the loop of line 156 completed
          e_map,           \* local e_map (line 157)
          e_paths,         \* local e_paths (line 158)
          e_totals,        \* local e_totals (line 158)
          seam,            \* local seam (line 159)
          pc,              \* position in resize_image
          err,             \* the exception that ended the call, if any
          ret              \* the returned reference, None until line 162

vars == <<heap, full_img, cropped_pixels, img, it, e_map, e_paths, e_totals,
          seam, pc, err, ret>>

----------------------------------------------------------------------------
(* Bounds of the model *)

\* height, width and channel count of the input image are at most MaxSide
MaxSide == 3

\* height * width * channels of the input image is at most MaxCells
MaxCells == 9

\* cropped_pixels ranges over -MaxOver .. width + MaxOver
MaxOver == 1

(* Program constants *)

\* channel values are uint8: arithmetic on them is modulo 2^8
Uint8Mod == 256

\* channel values of the input images, the two ends of the uint8 range:
\* 0 - 255 and 255 * 255 leave it, so the subtraction and the square wrap
PixelValues == {0, 255}

None == 0

----------------------------------------------------------------------------
(* Arrays *)

Height(a) == a.shape[1]
Width(a) == a.shape[2]
Channels(a) == a.shape[3]

Max2(a, b) == IF a >= b THEN a ELSE b
Min2(a, b) == IF a <= b THEN a ELSE b

\* list.reverse()
RECURSIVE Reverse(_)
Reverse(s) == IF s = <<>> THEN <<>> ELSE Append(Reverse(Tail(s)), Head(s))

\* min() of a non-empty sequence
RECURSIVE MinOf(_)
MinOf(s) ==
    IF Len(s) = 1 THEN s[1] ELSE Min2(s[1], MinOf(Tail(s)))

\* list.index(v) and np.where(s == v)[0][0]: the 0-based first position of v
RECURSIVE IndexOf(_, _)
IndexOf(s, v) == IF s[1] = v THEN 0 ELSE 1 + IndexOf(Tail(s), v)

\* numpy's slice s[lo:hi] of a row (0-based, hi exclusive, clipped at the end)
Slice(s, lo, hi) == SubSeq(s, lo + 1, Min2(hi, Len(s)))

\* the smallest buffer id not in use
NewId(h) == CHOOSE n \in 1..(Cardinality(DOMAIN h) + 1) : n \notin DOMAIN h

\* h with buffer n bound to array a
Alloc(h, n, a) == [k \in DOMAIN h \cup {n} |-> IF k = n THEN a ELSE h[k]]

\* h without buffer n (its last reference is gone)
Free(h, n) == [k \in DOMAIN h \ {n} |-> h[k]]

----------------------------------------------------------------------------
(* uint8 arithmetic of numpy: every result is reduced modulo 2^8 *)

U8Sub(a, b) == (a - b) % Uint8Mod
U8Sqr(a) == (a * a) % Uint8Mod
U8Add(a, b) == (a + b) % Uint8Mod

\* the builtin sum() of a sequence of uint8 values: 0 + s[1] + s[2] + ...
RECURSIVE U8Sum(_)
U8Sum(s) == IF s = <<>> THEN 0 ELSE U8Add(U8Sum(SubSeq(s, 1, Len(s) - 1)), s[Len(s)])

\* line 17, for one pixel: x_0, x_1, y_0, y_1 are its four neighbours
dual_gradient_energy(x_0, x_1, y_0, y_1) ==
    U8Sum([ch \in 1..Len(x_0) |->
             U8Add(U8Sqr(U8Sub(x_0[ch], x_1[ch])), U8Sqr(U8Sub(y_0[ch], y_1[ch])))])

\* np.roll(a, shift, axis=1)[r][c] = a[r][(c - shift) mod width], and axis=0 alike
energy_map(a) ==
    [r \in 1..Height(a) |->
       [c \in 1..Width(a) |->
          dual_gradient_energy(
             a.px[r][((c - 1 + 1) % Width(a)) + 1],
             a.px[r][((c - 1 - 1) % Width(a)) + 1],
             a.px[((r - 1 + 1) % Height(a)) + 1][c],
             a.px[((r - 1 - 1) % Height(a)) + 1][c])]]

----------------------------------------------------------------------------
(* cumulative_energy, for an energy grid of height >= 1 *)

\* prev_energies with the slice ending at j + 1: the right neighbour is lost
prev_energies_short(prev, j) == Slice(prev, Max2(j - 1, 0), j + 1)

\* line 70: the slice of the previous row that column j (0-based) looks at
prev_energies(prev, j) == Slice(prev, Max2(j - 1, 0), j + 2)

\* line 72
path_energy_cell(energy_row, prev, j) ==
    energy_row[j + 1] + MinOf(prev_energies(prev, j))

\* path_cell without the (j != 0) case: 1 is subtracted in column 0 too
path_cell_always_minus_one(prev, j) ==
    IndexOf(prev_energies(prev, j), MinOf(prev_energies(prev, j))) - 1

\* line 73
path_cell(prev, j) ==
    IndexOf(prev_energies(prev, j), MinOf(prev_energies(prev, j)))
      - (IF j # 0 THEN 1 ELSE 0)

\* lines 62-63 and 66-72: the rows 1..i of path_energies
RECURSIVE path_energies_rows(_, _)
path_energies_rows(energy, i) ==
    IF i = 1 THEN <<energy[1]>>
    ELSE LET above == path_energies_rows(energy, i - 1)
         IN  Append(above,
                    [c \in 1..Len(energy[i]) |->
                       path_energy_cell(energy[i], above[i - 1], c - 1)])

\* the int64 values a NaN may become when line 64 stores it in an int64 row:
\* the conversion is undefined, the common results are 0 and the most
\* negative integer (written here as the most negative value TLC holds)
NanAsInt == {0, -2147483647}

\* lines 60-75: <<paths, path_energies>>; nan is what line 64 stored in row 0
cumulative_energy(energy, nan) ==
    LET pe == path_energies_rows(energy, Len(energy))
        pa == [i \in 1..Len(energy) |->
                 [c \in 1..Len(energy[i]) |->
                    IF i = 1 THEN nan ELSE path_cell(pe[i - 1], c - 1)]]
    IN  <<pa, pe>>

\* seam_end taking the last index of the minimum instead of the first
seam_end_rightmost(energy_totals) ==
    LET last == energy_totals[Len(energy_totals)]
    IN  Len(last) - 1 - IndexOf(Reverse(last), MinOf(last))

\* line 92
seam_end(energy_totals) ==
    IndexOf(energy_totals[Len(energy_totals)], MinOf(energy_totals[Len(energy_totals)]))

\* lines 115-118: the seam bottom-up, s being the list so far and i the row
RECURSIVE find_seam_loop(_, _, _)
find_seam_loop(paths, s, i) ==
    IF i <= 0 THEN s
    ELSE LET cur_x == s[Len(s)]
             offset_of_prev_x == paths[i + 1][cur_x + 1]
         IN  find_seam_loop(paths, Append(s, cur_x + offset_of_prev_x), i - 1)

\* lines 112-121
find_seam(paths, end_x) == Reverse(find_seam_loop(paths, <<end_x>>, Len(paths) - 1))

\* np_delete with the tail starting at k instead of k + 1: nothing is deleted
np_delete_keeps_all(row, k) == SubSeq(row, 1, k) \o SubSeq(row, k + 1, Len(row))

\* np.delete(row, k, axis=0)
np_delete(row, k) == SubSeq(row, 1, k) \o SubSeq(row, k + 2, Len(row))

\* remove_seam deleting column seam[0] in every row instead of seam[row]
remove_seam_first_entry(a, s) ==
    IF Height(a) = 0 THEN [shape |-> <<0>>, px |-> <<>>]
    ELSE [shape |-> <<Height(a), Width(a) - 1, Channels(a)>>,
          px |-> [r \in 1..Height(a) |-> np_delete(a.px[r], s[1])]]

\* lines 137-138; np.array of an empty list is the 1-D array of shape (0,)
remove_seam(a, s) ==
    IF Height(a) = 0 THEN [shape |-> <<0>>, px |-> <<>>]
    ELSE [shape |-> <<Height(a), Width(a) - 1, Channels(a)>>,
          px |-> [r \in 1..Height(a) |-> np_delete(a.px[r], s[r])]]

\* line 154 without .copy(): img is another name of the caller's buffer
array_alias(h, ref) == <<h, ref>>

\* line 154, ndarray.copy(): <<the heap with a new buffer holding the same
\* shape and pixels, the new buffer's id>>
array_copy(h, ref) ==
    LET n == NewId(h)
    IN  <<Alloc(h, n, [shape |-> h[ref].shape, px |-> h[ref].px]), n>>

----------------------------------------------------------------------------
(* The inputs *)

Shapes ==
    {<<h, w, c>> : h \in 0..MaxSide, w \in 0..MaxSide, c \in 1..MaxSide}

InputShapes == {s \in Shapes : s[1] * s[2] * s[3] <= MaxCells}

ImagesOf(s) ==
    {[shape |-> s, px |-> p] :
        p \in [1..s[1] -> [1..s[2] -> [1..s[3] -> PixelValues]]]}

Init ==
    \E s \in InputShapes :
      \E a \in ImagesOf(s) :
        \E k \in (0 - MaxOver)..(s[2] + MaxOver) :
          /\ heap = (1 :> a)
          /\ full_img = 1
          /\ cropped_pixels = k
          /\ img = None
          /\ it = 0
          /\ e_map = <<>>
          /\ e_paths = <<>>
          /\ e_totals = <<>>
          /\ seam = <<>>
          /\ pc = "call"
          /\ err = "none"
          /\ ret = None

----------------------------------------------------------------------------
(* resize_image, statement by statement *)

Raise(e) ==
    /\ pc' = "error"
    /\ err' = e

\* line 154: img = full_img.copy()
Copy ==
    /\ pc = "call"
    /\ heap' = array_copy(heap, full_img)[1]
    /\ img' = array_copy(heap, full_img)[2]
    /\ pc' = "loop"
    /\ UNCHANGED <<full_img, cropped_pixels, it, e_map, e_paths, e_totals, seam, err, ret>>

\* lines 156-157: the loop goes on, e_map = energy_map(img)
EnergyMap ==
    /\ pc = "loop"
    /\ it < cropped_pixels
    /\ Len(heap[img].shape) = 3
    /\ e_map' = energy_map(heap[img])
    /\ pc' = "cumulative"
    /\ UNCHANGED <<heap, full_img, cropped_pixels, img, it, e_paths, e_totals, seam, err, ret>>

\* line 157 on the 1-D array remove_seam leaves of an image of height 0:
\* np.roll(img, -1, axis=1) has no axis 1
EnergyMapAxisError ==
    /\ pc = "loop"
    /\ it < cropped_pixels
    /\ Len(heap[img].shape) < 2
    /\ Raise("AxisError")
    /\ UNCHANGED <<heap, full_img, cropped_pixels, img, it, e_map, e_paths, e_totals, seam, ret>>

\* line 158: e_paths, e_totals = cumulative_energy(e_map)
CumulativeEnergy ==
    /\ pc = "cumulative"
    /\ Height(heap[img]) >= 1
    /\ \E nan \in NanAsInt :
         /\ e_paths' = cumulative_energy(e_map, nan)[1]
         /\ e_totals' = cumulative_energy(e_map, nan)[2]
    /\ pc' = "seam"
    /\ UNCHANGED <<heap, full_img, cropped_pixels, img, it, e_map, seam, err, ret>>

\* line 158 on a grid of height 0: lines 63-64 index row 0 of arrays that have
\* no row.  The jitted code does not check bounds, so it either goes on with
\* the empty tables or faults; with bounds checking it raises IndexError
CumulativeEnergyNoRows ==
    /\ pc = "cumulative"
    /\ Height(heap[img]) = 0
    /\ \/ /\ e_paths' = <<>>
          /\ e_totals' = <<>>
          /\ pc' = "seam"
          /\ UNCHANGED err
       \/ /\ \E e \in {"IndexError", "MemoryFault"} : Raise(e)
          /\ UNCHANGED <<e_paths, e_totals>>
    /\ UNCHANGED <<heap, full_img, cropped_pixels, img, it, e_map, seam, ret>>

\* line 159: seam = find_seam(e_paths, seam_end(e_totals))
FindSeam ==
    /\ pc = "seam"
    /\ Height(heap[img]) >= 1
    /\ Width(heap[img]) >= 1
    /\ seam' = find_seam(e_paths, seam_end(e_totals))
    /\ pc' = "remove"
    /\ UNCHANGED <<heap, full_img, cropped_pixels, img, it, e_map, e_paths, e_totals, err, ret>>

\* line 159 on tables of width 0: min() of an empty row (line 92)
SeamEndEmpty ==
    /\ pc = "seam"
    /\ Width(heap[img]) = 0
    /\ Raise("ValueError")
    /\ UNCHANGED <<heap, full_img, cropped_pixels, img, it, e_map, e_paths, e_totals, seam, ret>>

\* line 159 on tables of height 0 (after the unchecked line 158): row -1 is
\* read outside the buffer, so the index of its minimum is any column;
\* find_seam's loop does not run and the seam is [end_x]
FindSeamNoRows ==
    /\ pc = "seam"
    /\ Height(heap[img]) = 0
    /\ Width(heap[img]) >= 1
    /\ \/ /\ \E end_x \in 0..(Width(heap[img]) - 1) : seam' = find_seam(e_paths, end_x)
          /\ pc' = "remove"
          /\ UNCHANGED err
       \/ /\ Raise("MemoryFault")
          /\ UNCHANGED seam
    /\ UNCHANGED <<heap, full_img, cropped_pixels, img, it, e_map, e_paths, e_totals, ret>>

\* line 160: img = remove_seam(img, seam); the buffer img named before is
\* released, unless the caller's reference still names it
RemoveSeam ==
    /\ pc = "remove"
    /\ LET n == NewId(heap)
       IN  /\ heap' = Free(Alloc(heap, n, remove_seam(heap[img], seam)),
                           IF img = full_img THEN None ELSE img)
           /\ img' = n
    /\ it' = it + 1
    /\ pc' = "loop"
    /\ UNCHANGED <<full_img, cropped_pixels, e_map, e_paths, e_totals, seam, err, ret>>

\* lines 156 and 162: the loop is over, return img
Return ==
    /\ pc = "loop"
    /\ it >= cropped_pixels
    /\ ret' = img
    /\ pc' = "done"
    /\ UNCHANGED <<heap, full_img, cropped_pixels, img, it, e_map, e_paths, e_totals, seam, err>>

Next ==
    \/ Copy
    \/ EnergyMap
    \/ EnergyMapAxisError
    \/ CumulativeEnergy
    \/ CumulativeEnergyNoRows
    \/ FindSeam
    \/ SeamEndEmpty
    \/ FindSeamNoRows
    \/ RemoveSeam
    \/ Return

Spec == Init /\ [][Next]_vars

----------------------------------------------------------------------------
(* The properties *)

\* the caller's image and the arguments of the call
Orig == heap[full_img]
H0 == Height(Orig)
W0 == Width(Orig)
C0 == Channels(Orig)
K == cropped_pixels

Abs(x) == IF x < 0 THEN 0 - x ELSE x

\* array a has the shape <<h, w, c>> and its rows and pixels have those lengths
HasShape(a, h, w, c) ==
    /\ a.shape = <<h, w, c>>
    /\ Len(a.px) = h
    /\ \A r \in 1..h :
         /\ Len(a.px[r]) = w
         /\ \A x \in 1..w : Len(a.px[r][x]) = c

\* new is old without its element at 0-based position k, the rest in order
DeletedAt(old, new, k) ==
    /\ k \in 0..(Len(old) - 1)
    /\ Len(new) = Len(old) - 1
    /\ \A j \in 1..Len(new) : new[j] = IF j <= k THEN old[j] ELSE old[j + 1]

\* s is t with some elements deleted, the rest in order
RECURSIVE IsSubseq(_, _)
IsSubseq(s, t) ==
    IF s = <<>> THEN TRUE
    ELSE IF t = <<>> THEN FALSE
    ELSE IF s[1] = t[1] THEN IsSubseq(Tail(s), Tail(t))
    ELSE IsSubseq(s, Tail(t))

\* C1: for an image of height H >= 1 and width W >= 1 and 0 <= K < W the call
\* does not fail, after every iteration the image has width W - (iterations
\* done) with height and channel count unchanged (each remove_seam takes
\* exactly one column), and the returned image has width W - K.
C1_WidthShrinksByOne ==
    (H0 >= 1 /\ W0 >= 1 /\ 0 <= K /\ K < W0 /\ pc # "call") =>
        /\ pc # "error"
        /\ HasShape(heap[img], H0, W0 - it, C0)
        /\ pc = "done" => (it = K /\ HasShape(heap[ret], H0, W0 - K, C0))

C1_Witness ==
    /\ pc = "done"
    /\ H0 >= 2
    /\ K >= 2
    /\ K < W0
    /\ HasShape(heap[ret], H0, W0 - K, C0)

\* C2: resize_image fails with InvalidCropCount and returns nothing when K is
\* negative or K >= width; resize(img, width - 1) returns a 1-column image.
\* Stated for the images that have a pixel: those without are C7's.
C2_InvalidCropCount ==
    (H0 >= 1 /\ W0 >= 1) =>
        /\ (K < 0 \/ K >= W0) =>
              /\ pc # "done"
              /\ pc = "error" => err = "InvalidCropCount"
        /\ (K = W0 - 1 /\ pc = "done") => Width(heap[ret]) = 1

\* the energy of the claim, in unbounded integers
TrueEnergy(a, r, c) ==
    LET left == a.px[r][((c - 1 - 1) % Width(a)) + 1]
        right == a.px[r][((c - 1 + 1) % Width(a)) + 1]
        up == a.px[((r - 1 - 1) % Height(a)) + 1][c]
        down == a.px[((r - 1 + 1) % Height(a)) + 1][c]
        sq[ch \in 1..Channels(a)] ==
            (left[ch] - right[ch]) * (left[ch] - right[ch])
              + (up[ch] - down[ch]) * (up[ch] - down[ch])
        RECURSIVE total(_)
        total(n) == IF n = 0 THEN 0 ELSE total(n - 1) + sq[n]
    IN  total(Channels(a))

\* C3: for channel values 0..255 energy_map returns at every pixel the exact
\* integer sum over the channels of the squared differences of its toroidal
\* neighbours, nothing being reduced modulo 2^8.
C3_EnergyExact ==
    pc = "cumulative" =>
        \A r \in 1..Height(heap[img]) :
          \A c \in 1..Width(heap[img]) :
            e_map[r][c] = TrueEnergy(heap[img], r, c)

C4_Step ==
    /\ (pc = "remove" /\ pc' = "loop") =>
          \A r \in 1..Height(heap[img]) :
            DeletedAt(heap[img].px[r], heap'[img'].px[r], seam[r])
    /\ (pc' = "done" /\ 0 <= K /\ K < W0) =>
          /\ \A r \in 1..H0 :
               /\ Len(heap'[ret'].px[r]) = W0 - K
               /\ IsSubseq(heap'[ret'].px[r], Orig.px[r])
          /\ K = 0 => heap'[ret'] = Orig

\* C4: every iteration deletes from each row exactly the pixel at column
\* seam[row], the other pixels of the row keeping their values and order; for
\* 0 <= K < W each row of the result is the row of the input with exactly K
\* pixels deleted, and for K = 0 the result equals the input.
C4_RowIdentity == [][C4_Step]_vars

C4_Witness ==
    /\ pc = "done"
    /\ K >= 1
    /\ K < W0
    /\ H0 >= 2
    /\ seam[1] # seam[2]
    /\ \A r \in 1..H0 : IsSubseq(heap[ret].px[r], Orig.px[r])
    /\ \E r \in 1..H0 : \E c \in 1..W0 : Orig.px[r][c] # Orig.px[1][1]

Uniform(a) ==
    \A r \in 1..Height(a) : \A c \in 1..Width(a) : a.px[r][c] = a.px[1][1]

\* C5: for an image whose pixels all have the same value the energy map is
\* zero at every pixel, the seam of every iteration is column 0 in every row
\* of the image, and for 0 <= K < W every row of the result is the columns
\* K..W-1 of that row of the input.
C5_UniformImage ==
    Uniform(Orig) =>
        /\ pc \in {"cumulative", "seam", "remove"} =>
              \A r \in 1..Len(e_map) : \A c \in 1..Len(e_map[r]) : e_map[r][c] = 0
        /\ pc = "remove" =>
              \A r \in 1..Height(heap[img]) : seam[r] = 0
        /\ (pc = "done" /\ 0 <= K /\ K < W0) =>
              \A r \in 1..H0 : heap[ret].px[r] = SubSeq(Orig.px[r], K + 1, W0)

C5_Witness ==
    /\ Uniform(Orig)
    /\ H0 >= 2
    /\ W0 >= 3
    /\ K = 2
    /\ pc = "done"
    /\ seam = <<0, 0>>
    /\ \A r \in 1..H0 : heap[ret].px[r] = SubSeq(Orig.px[r], K + 1, W0)

\* C6: every seam find_seam produces in an iteration of resize_image has
\* length exactly the height of the image, and vertically adjacent entries
\* differ by at most 1.
C6_SeamShape ==
    pc = "remove" =>
        /\ Len(seam) = Height(heap[img])
        /\ \A i \in 1..(Len(seam) - 1) : Abs(seam[i + 1] - seam[i]) <= 1

\* C7: resize_image fails with InvalidDimension whenever the input image has
\* height zero or width zero, for every K, instead of returning an image or
\* raising another error.
C7_InvalidDimension ==
    (H0 = 0 \/ W0 = 0) =>
        /\ pc # "done"
        /\ pc = "error" => err = "InvalidDimension"

C8_Step ==
    /\ full_img' = full_img
    /\ heap'[full_img'] = heap[full_img]
    /\ img' # full_img'
    /\ ret' # None => ret' # full_img'

\* C8: a call never changes the caller's image: in every step, whatever the
\* outcome, the caller's reference and the shape and pixels of its buffer
\* stay as they were, and the working and the returned image are another
\* buffer than the caller's.
C8_CallerImageUntouched == [][C8_Step]_vars

C8_Witness ==
    /\ pc = "done"
    /\ K = 0
    /\ H0 >= 1
    /\ W0 >= 1
    /\ ret # full_img
    /\ heap[ret] = heap[full_img]

\* the columns of the row above that column j (0-based) of a grid of width w
\* may come from
Window(j, w) == {j - 1, j, j + 1} \cap (0..(w - 1))

\* C9: in the tables of cumulative_energy, for every row i >= 1 and column j
\* the parent j + paths[i][j] is the lowest column of the window {j-1, j, j+1}
\* cut to [0, W-1] at which path_energies[i-1] is minimal and
\* path_energies[i][j] is energy[i][j] plus that minimum; seam_end is the
\* lowest index at which the last row of path_energies is minimal.
C9_LeftmostParent ==
    /\ (pc \in {"seam", "remove"} /\ e_totals # <<>>) =>
          \A i \in 2..Len(e_totals) :
            \A j \in 0..(Len(e_totals[i]) - 1) :
              LET above == e_totals[i - 1]
                  parent == j + e_paths[i][j + 1]
              IN  /\ parent \in Window(j, Len(e_totals[i]))
                  /\ \A k \in Window(j, Len(e_totals[i])) :
                       /\ above[parent + 1] <= above[k + 1]
                       /\ above[k + 1] = above[parent + 1] => parent <= k
                  /\ e_totals[i][j + 1] = e_map[i][j + 1] + above[parent + 1]
    /\ (pc = "remove" /\ e_totals # <<>>) =>
          LET last == e_totals[Len(e_totals)]
              end_x == seam[Len(seam)]
          IN  /\ end_x \in 0..(Len(last) - 1)
              /\ \A k \in 0..(Len(last) - 1) :
                   /\ last[end_x + 1] <= last[k + 1]
                   /\ last[k + 1] = last[end_x + 1] => end_x <= k

C9_Witness ==
    /\ pc = "remove"
    /\ Len(e_totals) >= 2
    /\ Len(e_totals[1]) >= 3
    /\ \E i \in 2..Len(e_totals) : e_paths[i][1] = 1
    /\ \E i \in 2..Len(e_totals) : e_paths[i][Len(e_totals[i])] = 0 - 1
    /\ \E i \in 2..Len(e_totals) :
         \E j \in 0..(Len(e_totals[i]) - 1) :
           \E k \in Window(j, Len(e_totals[i])) :
             /\ k > j + e_paths[i][j + 1]
             /\ e_totals[i - 1][k + 1] = e_totals[i - 1][j + e_paths[i][j + 1] + 1]
    /\ seam[Len(seam)] > 0
    /\ \E k \in 0..(Len(e_totals[1]) - 1) :
         /\ k > seam[Len(seam)]
         /\ e_totals[Len(e_totals)][k + 1] = e_totals[Len(e_totals)][seam[Len(seam)] + 1]

\* the paths of i rows through a grid of width w: one column (0-based) per
\* row, consecutive columns differing by at most 1
PathsTo(i, w) ==
    {p \in [1..i -> 0..(w - 1)] : \A t \in 1..(i - 1) : Abs(p[t + 1] - p[t]) <= 1}

\* the total energy of the path p
RECURSIVE PathSum(_, _)
PathSum(p, n) == IF n = 0 THEN 0 ELSE PathSum(p, n - 1) + e_map[n][p[n] + 1]

\* C10: for a grid of height H >= 1 and width W >= 1 path_energies[i][j] is
\* the least total energy of the paths from row 0 to (i, j) whose consecutive
\* columns differ by at most 1, and the seam of find_seam from seam_end has
\* the least total energy of all such full-height paths.
C10_MinimalSeam ==
    /\ (pc \in {"seam", "remove"} /\ e_totals # <<>> /\ Len(e_totals[1]) >= 1) =>
          \A i \in 1..Len(e_totals) :
            \A j \in 0..(Len(e_totals[1]) - 1) :
              LET to == {p \in PathsTo(i, Len(e_totals[1])) : p[i] = j}
              IN  /\ \E p \in to : PathSum(p, i) = e_totals[i][j + 1]
                  /\ \A p \in to : PathSum(p, i) >= e_totals[i][j + 1]
    /\ (pc = "remove" /\ e_totals # <<>>) =>
          /\ seam \in PathsTo(Len(e_totals), Len(e_totals[1]))
          /\ \A p \in PathsTo(Len(e_totals), Len(e_totals[1])) :
               PathSum(seam, Len(seam)) <= PathSum(p, Len(p))

C10_Witness ==
    /\ pc = "remove"
    /\ Len(e_totals) >= 2
    /\ Len(e_totals[1]) >= 3
    /\ seam[1] # seam[2]
    /\ \E p \in PathsTo(Len(e_totals), Len(e_totals[1])) :
         PathSum(p, Len(p)) > PathSum(seam, Len(seam))
    /\ PathSum(seam, Len(seam)) > 0

====
